---- MODULE Spec2Model ----
(***************************************************************************)
(* The editor of src/src/main.rs as a state machine: the Editor struct,    *)
(* the update handler arm by arm, the three asynchronous tasks (pick_file, *)
(* load_file, save_file), the filesystem they read and write, and the      *)
(* queue of outcome messages the runtime hands back to update.             *)
(***************************************************************************)
EXTENDS Integers, Sequences, FiniteSets, Bags, TLC

VARIABLES
    path,        \* Editor.path: a path or None
    content,     \* Editor.content: lines, cursor and selection anchor
    theme,       \* Editor.theme
    is_dirty,    \* Editor.is_dirty
    error,       \* Editor.error: None or an Error value
    running,     \* tasks started by Command::perform and not yet finished
    inbox,       \* outcome messages of finished tasks, in arrival order
    fs,          \* the filesystem: path -> file text or NoFile
    last,        \* history: the message update handled last
    snapshot,    \* history: text of the content last loaded or saved
    base         \* history: what set the document last (Startup, New, or Sync:
                 \* a load or save applied) and whether a content edit followed

vars == <<path, content, theme, is_dirty, error, running, inbox, fs,
          last, snapshot, base>>

doc == <<path, content, theme, is_dirty, error>>

----------------------------------------------------------------------------
(* Bounds of the model *)

\* most characters (letters and line breaks) the edited text may hold
MaxLen == 1

\* most operations in flight (running tasks plus undelivered outcomes)
MaxInFlight == 2

----------------------------------------------------------------------------
(* Values. One letter and one file (the default file, which the pickers    *)
(* offer too) keep the state space small; the file may or may not exist    *)
(* when the editor starts.                                                 *)

None == "None"
NoFile == <<"NoFile">>

\* the snapshot before any text was loaded or saved
NoSnapshot == <<"NoSnapshot">>
NL == "NL"
Alphabet == {"a"}

DefaultFile == "P1"
Paths == {"P1"}
Themes == {"SolarizedDark", "InspiredGitHub"}

DialogClosed == [tag |-> "DialogClosed", kind |-> None]
IOFailed(kind) == [tag |-> "IOFailed", kind |-> kind]
NoError == [tag |-> None, kind |-> None]

NoSel == <<>>

Min(a, b) == IF a <= b THEN a ELSE b

----------------------------------------------------------------------------
(* text_editor::Content: lines of text, a cursor (line, column) and an     *)
(* optional selection anchor; lines and columns count from 0.              *)

RECURSIVE Join(_)
Join(ls) ==
    IF Len(ls) = 1 THEN ls[1]
    ELSE ls[1] \o <<NL>> \o Join(Tail(ls))

TextLen(ls) == Len(Join(ls))

RECURSIVE SplitLines(_)
SplitLines(t) ==
    IF t = <<>> THEN << <<>> >>
    ELSE IF Head(t) = NL THEN << <<>> >> \o SplitLines(Tail(t))
    ELSE LET r == SplitLines(Tail(t))
         IN  << <<Head(t)>> \o Head(r) >> \o Tail(r)

\* the paragraphs of a text: a final line break ends the last line and
\* opens no further one
Paragraphs(t) ==
    LET s == SplitLines(t)
    IN  IF Len(s) > 1 /\ s[Len(s)] = <<>> THEN SubSeq(s, 1, Len(s) - 1) ELSE s

WithText(t) == [lines |-> Paragraphs(t), cursor |-> <<0, 0>>, anchor |-> NoSel]

NewContent == WithText(<<>>)

\* Content::text(): the lines joined by line breaks, with a final line
\* break added when the text does not end with one
ContentText(c) ==
    LET t == Join(c.lines)
    IN  IF t # <<>> /\ t[Len(t)] = NL THEN t ELSE Append(t, NL)

CursorPosition(c) == c.cursor

Line(c, l) == c.lines[l + 1]

Positions(c) ==
    {p \in (0..(Len(c.lines) - 1)) \X (0..MaxLen) : p[2] <= Len(Line(c, p[1]))}

PosBefore(p, q) == p[1] < q[1] \/ (p[1] = q[1] /\ p[2] < q[2])

Motions == {"Left", "Right", "Up", "Down"}

MotionTarget(c, m) ==
    LET l == c.cursor[1]
        k == c.cursor[2]
        n == Len(c.lines)
    IN  CASE m = "Left" ->
                 IF k > 0 THEN <<l, k - 1>>
                 ELSE IF l > 0 THEN <<l - 1, Len(Line(c, l - 1))>>
                 ELSE <<l, k>>
          [] m = "Right" ->
                 IF k < Len(Line(c, l)) THEN <<l, k + 1>>
                 ELSE IF l < n - 1 THEN <<l + 1, 0>>
                 ELSE <<l, k>>
          [] m = "Up" ->
                 IF l > 0 THEN <<l - 1, Min(k, Len(Line(c, l - 1)))>>
                 ELSE <<l, k>>
          [] m = "Down" ->
                 IF l < n - 1 THEN <<l + 1, Min(k, Len(Line(c, l + 1)))>>
                 ELSE <<l, k>>

Deselect(c) == IF c.anchor = c.cursor THEN [c EXCEPT !.anchor = NoSel] ELSE c

MoveCursor(c, m) ==
    IF c.anchor # NoSel
    THEN LET left  == IF PosBefore(c.cursor, c.anchor) THEN c.cursor ELSE c.anchor
             right == IF PosBefore(c.cursor, c.anchor) THEN c.anchor ELSE c.cursor
         IN  [c EXCEPT !.anchor = NoSel,
                       !.cursor = IF m \in {"Left", "Up"} THEN left ELSE right]
    ELSE [c EXCEPT !.cursor = MotionTarget(c, m)]

SelectMotion(c, m) ==
    LET a == IF c.anchor = NoSel THEN c.cursor ELSE c.anchor
    IN  Deselect([c EXCEPT !.anchor = a, !.cursor = MotionTarget(c, m)])

Click(c, p) == [c EXCEPT !.cursor = p, !.anchor = NoSel]

Drag(c, p) ==
    LET a == IF c.anchor = NoSel THEN c.cursor ELSE c.anchor
    IN  Deselect([c EXCEPT !.anchor = a, !.cursor = p])

DeleteSelection(c) ==
    IF c.anchor = NoSel THEN c
    ELSE LET s == IF PosBefore(c.cursor, c.anchor) THEN c.cursor ELSE c.anchor
             e == IF PosBefore(c.cursor, c.anchor) THEN c.anchor ELSE c.cursor
             n == Len(c.lines)
             joined == SubSeq(Line(c, s[1]), 1, s[2])
                         \o SubSeq(Line(c, e[1]), e[2] + 1, Len(Line(c, e[1])))
         IN  [lines  |-> SubSeq(c.lines, 1, s[1]) \o <<joined>>
                           \o SubSeq(c.lines, e[1] + 2, n),
              cursor |-> s,
              anchor |-> NoSel]

InsertChar(c0, ch) ==
    LET c == DeleteSelection(c0)
        l == c.cursor[1]
        k == c.cursor[2]
        ln == Line(c, l)
    IN  [c EXCEPT !.lines[l + 1] = SubSeq(ln, 1, k) \o <<ch>> \o SubSeq(ln, k + 1, Len(ln)),
                  !.cursor = <<l, k + 1>>]

InsertNewline(c0) ==
    LET c == DeleteSelection(c0)
        l == c.cursor[1]
        k == c.cursor[2]
        ln == Line(c, l)
    IN  [c EXCEPT !.lines = SubSeq(c.lines, 1, l)
                              \o <<SubSeq(ln, 1, k), SubSeq(ln, k + 1, Len(ln))>>
                              \o SubSeq(c.lines, l + 2, Len(c.lines)),
                  !.cursor = <<l + 1, 0>>]

Backspace(c) ==
    LET l == c.cursor[1]
        k == c.cursor[2]
        ln == Line(c, l)
    IN  IF c.anchor # NoSel THEN DeleteSelection(c)
        ELSE IF k > 0
        THEN [c EXCEPT !.lines[l + 1] = SubSeq(ln, 1, k - 1) \o SubSeq(ln, k + 1, Len(ln)),
                       !.cursor = <<l, k - 1>>]
        ELSE IF l > 0
        THEN [c EXCEPT !.lines = SubSeq(c.lines, 1, l - 1)
                                   \o <<Line(c, l - 1) \o ln>>
                                   \o SubSeq(c.lines, l + 2, Len(c.lines)),
                       !.cursor = <<l - 1, Len(Line(c, l - 1))>>]
        ELSE c

Delete(c) ==
    LET l == c.cursor[1]
        k == c.cursor[2]
        ln == Line(c, l)
        n == Len(c.lines)
    IN  IF c.anchor # NoSel THEN DeleteSelection(c)
        ELSE IF k < Len(ln)
        THEN [c EXCEPT !.lines[l + 1] = SubSeq(ln, 1, k) \o SubSeq(ln, k + 2, Len(ln))]
        ELSE IF l < n - 1
        THEN [c EXCEPT !.lines = SubSeq(c.lines, 1, l)
                                   \o <<ln \o Line(c, l + 1)>>
                                   \o SubSeq(c.lines, l + 3, n)]
        ELSE c

\* text_editor::Action values
MoveAction(m) == [kind |-> "Move", motion |-> m]
SelectAction(m) == [kind |-> "Select", motion |-> m]
ClickAction(p) == [kind |-> "Click", pos |-> p]
DragAction(p) == [kind |-> "Drag", pos |-> p]
InsertAction(ch) == [kind |-> "Edit", edit |-> "Insert", ch |-> ch]
EnterAction == [kind |-> "Edit", edit |-> "Enter", ch |-> None]
BackspaceAction == [kind |-> "Edit", edit |-> "Backspace", ch |-> None]
DeleteAction == [kind |-> "Edit", edit |-> "Delete", ch |-> None]

\* Action::is_edit()
IsEdit(a) == a.kind = "Edit"

\* Content::perform(action)
Perform(c, a) ==
    CASE a.kind = "Move" -> MoveCursor(c, a.motion)
      [] a.kind = "Select" -> SelectMotion(c, a.motion)
      [] a.kind = "Click" -> Click(c, a.pos)
      [] a.kind = "Drag" -> Drag(c, a.pos)
      [] a.kind = "Edit" /\ a.edit = "Insert" -> InsertChar(c, a.ch)
      [] a.kind = "Edit" /\ a.edit = "Enter" -> InsertNewline(c)
      [] a.kind = "Edit" /\ a.edit = "Backspace" -> Backspace(c)
      [] a.kind = "Edit" /\ a.edit = "Delete" -> Delete(c)

----------------------------------------------------------------------------
(* Tasks and their outcome messages *)

LoadTask(p) == [op |-> "LoadFile", path |-> p, text |-> <<>>]
PickTask == [op |-> "PickFile", path |-> None, text |-> <<>>]
SaveTask(p, t) == [op |-> "SaveFile", path |-> p, text |-> t]

\* Message::FileOpened(Ok((path, content))) and Message::FileOpened(Err(error))
OpenedOk(p, t) == [msg |-> "FileOpened", ok |-> TRUE, path |-> p, text |-> t, err |-> NoError]
OpenedErr(e) == [msg |-> "FileOpened", ok |-> FALSE, path |-> None, text |-> <<>>, err |-> e]

\* Message::FileSaved(Ok(path)) and Message::FileSaved(Err(error)); the text
\* field of a success is history (the text the task wrote), update never reads it
SavedOk(p, t) == [msg |-> "FileSaved", ok |-> TRUE, path |-> p, text |-> t, err |-> NoError]
SavedErr(e) == [msg |-> "FileSaved", ok |-> FALSE, path |-> None, text |-> <<>>, err |-> e]

InFlight == BagCardinality(running) + Len(inbox)

Spawn(t) == running (+) SetToBag({t})

\* what update handled last; afterEdit: an outcome applied right after a
\* content-changing edit
Handled(tag) == [msg |-> tag, afterEdit |-> FALSE]
HandledOutcome(tag) ==
    [msg |-> tag, afterEdit |-> (last.msg = "EditChange")]

----------------------------------------------------------------------------
(* Editor::new *)

\* variant: startup asks for the file to load through the open dialog
Init_PicksStartupFile ==
    /\ path = None
    /\ content = NewContent
    /\ theme = "SolarizedDark"
    /\ is_dirty = TRUE
    /\ error = NoError
    /\ running = SetToBag({PickTask})
    /\ inbox = <<>>
    /\ fs \in [Paths -> {NoFile, <<"a">>}]
    /\ last = Handled("Startup")
    /\ snapshot = NoSnapshot
    /\ base = [since |-> "Startup", edited |-> FALSE]

Init ==
    /\ path = None
    /\ content = NewContent
    /\ theme = "SolarizedDark"
    /\ is_dirty = TRUE
    /\ error = NoError
    /\ running = SetToBag({LoadTask(DefaultFile)})
    /\ inbox = <<>>
    /\ fs \in [Paths -> {NoFile, <<"a">>}]
    /\ last = Handled("Startup")
    /\ snapshot = NoSnapshot
    /\ base = [since |-> "Startup", edited |-> FALSE]

----------------------------------------------------------------------------
(* Editor::update, one action per arm *)

\* variant: an edit never marks the document dirty
UpdateEdit_NeverDirty(a) ==
    /\ TextLen(Perform(content, a).lines) <= MaxLen
    /\ is_dirty' = is_dirty
    /\ content' = Perform(content, a)
    /\ error' = NoError
    /\ last' = Handled(IF IsEdit(a) THEN "EditChange" ELSE "EditCursor")
    /\ base' = [base EXCEPT !.edited = @ \/ IsEdit(a)]
    /\ UNCHANGED <<path, theme, running, inbox, fs, snapshot>>

\* variant: every edit message marks the document dirty, cursor-only or not
UpdateEdit_AlwaysDirty(a) ==
    /\ TextLen(Perform(content, a).lines) <= MaxLen
    /\ is_dirty' = TRUE
    /\ content' = Perform(content, a)
    /\ error' = NoError
    /\ last' = Handled(IF IsEdit(a) THEN "EditChange" ELSE "EditCursor")
    /\ base' = [base EXCEPT !.edited = @ \/ IsEdit(a)]
    /\ UNCHANGED <<path, theme, running, inbox, fs, snapshot>>

UpdateEdit(a) ==
    /\ TextLen(Perform(content, a).lines) <= MaxLen
    /\ is_dirty' = (is_dirty \/ IsEdit(a))
    /\ content' = Perform(content, a)
    /\ error' = NoError
    /\ last' = Handled(IF IsEdit(a) THEN "EditChange" ELSE "EditCursor")
    /\ base' = [base EXCEPT !.edited = @ \/ IsEdit(a)]
    /\ UNCHANGED <<path, theme, running, inbox, fs, snapshot>>

EditMove == \E m \in Motions : UpdateEdit(MoveAction(m))
EditSelect == \E m \in Motions : UpdateEdit(SelectAction(m))
EditClick == \E p \in Positions(content) : UpdateEdit(ClickAction(p))
EditDrag == \E p \in Positions(content) : UpdateEdit(DragAction(p))
EditInsert == \E ch \in Alphabet : UpdateEdit(InsertAction(ch))
EditEnter == UpdateEdit(EnterAction)
EditBackspace == UpdateEdit(BackspaceAction)
EditDelete == UpdateEdit(DeleteAction)

\* variant: New leaves a clean document
UpdateNew_Clean ==
    /\ path' = None
    /\ content' = NewContent
    /\ is_dirty' = FALSE
    /\ last' = Handled("New")
    /\ base' = [since |-> "New", edited |-> FALSE]
    /\ UNCHANGED <<theme, error, running, inbox, fs, snapshot>>

UpdateNew ==
    /\ path' = None
    /\ content' = NewContent
    /\ is_dirty' = TRUE
    /\ last' = Handled("New")
    /\ base' = [since |-> "New", edited |-> FALSE]
    /\ UNCHANGED <<theme, error, running, inbox, fs, snapshot>>

\* variant: an Open requested while an operation is in flight is ignored
UpdateOpen_OneAtATime ==
    /\ InFlight < MaxInFlight
    /\ running' = IF InFlight > 0 THEN running ELSE Spawn(PickTask)
    /\ last' = Handled("Open")
    /\ UNCHANGED <<doc, inbox, fs, snapshot, base>>

\* variant: issuing an Open dismisses the error shown
UpdateOpen_ClearsError ==
    /\ InFlight < MaxInFlight
    /\ running' = Spawn(PickTask)
    /\ error' = NoError
    /\ last' = Handled("Open")
    /\ UNCHANGED <<path, content, theme, is_dirty, inbox, fs, snapshot, base>>

UpdateOpen ==
    /\ InFlight < MaxInFlight
    /\ running' = Spawn(PickTask)
    /\ last' = Handled("Open")
    /\ UNCHANGED <<doc, inbox, fs, snapshot, base>>

\* variant: a Save passes the text on and not the document's path
UpdateSave_ForgetsPath(tag) ==
    /\ InFlight < MaxInFlight
    /\ running' = Spawn(SaveTask(None, ContentText(content)))
    /\ last' = Handled(tag)
    /\ UNCHANGED <<doc, inbox, fs, snapshot, base>>

UpdateSave(tag) ==
    /\ InFlight < MaxInFlight
    /\ running' = Spawn(SaveTask(path, ContentText(content)))
    /\ last' = Handled(tag)
    /\ UNCHANGED <<doc, inbox, fs, snapshot, base>>

\* the Save control of view, pressable only while is_dirty
SaveControl == is_dirty /\ UpdateSave("SaveControl")

\* the keyboard subscription: any character key with the command modifier
SaveKey == UpdateSave("SaveKey")

\* variant: a loaded text does not replace a document edited meanwhile
FileOpenedOk_KeepsEdits ==
    /\ inbox # <<>>
    /\ Head(inbox).msg = "FileOpened" /\ Head(inbox).ok
    /\ path' = Head(inbox).path
    /\ content' = IF is_dirty THEN content ELSE WithText(Head(inbox).text)
    /\ is_dirty' = FALSE
    /\ inbox' = Tail(inbox)
    /\ last' = HandledOutcome("FileOpenedOk")
    /\ snapshot' = ContentText(WithText(Head(inbox).text))
    /\ base' = [since |-> "Sync", edited |-> FALSE]
    /\ UNCHANGED <<theme, error, running, fs>>

\* variant: a loaded text replaces the lines and keeps the cursor and selection
FileOpenedOk_KeepsCursor ==
    /\ inbox # <<>>
    /\ Head(inbox).msg = "FileOpened" /\ Head(inbox).ok
    /\ path' = Head(inbox).path
    /\ content' = [content EXCEPT !.lines = Paragraphs(Head(inbox).text)]
    /\ is_dirty' = FALSE
    /\ inbox' = Tail(inbox)
    /\ last' = HandledOutcome("FileOpenedOk")
    /\ snapshot' = ContentText(WithText(Head(inbox).text))
    /\ base' = [since |-> "Sync", edited |-> FALSE]
    /\ UNCHANGED <<theme, error, running, fs>>

\* variant: a loaded text is dropped when a Save was applied just before it
FileOpenedOk_DropsAfterSave ==
    /\ inbox # <<>>
    /\ Head(inbox).msg = "FileOpened" /\ Head(inbox).ok
    /\ path' = Head(inbox).path
    /\ content' = IF last.msg = "FileSavedOk" THEN content
                                              ELSE WithText(Head(inbox).text)
    /\ is_dirty' = FALSE
    /\ inbox' = Tail(inbox)
    /\ last' = HandledOutcome("FileOpenedOk")
    /\ snapshot' = ContentText(WithText(Head(inbox).text))
    /\ base' = [since |-> "Sync", edited |-> FALSE]
    /\ UNCHANGED <<theme, error, running, fs>>

FileOpenedOk ==
    /\ inbox # <<>>
    /\ Head(inbox).msg = "FileOpened" /\ Head(inbox).ok
    /\ path' = Head(inbox).path
    /\ content' = WithText(Head(inbox).text)
    /\ is_dirty' = FALSE
    /\ inbox' = Tail(inbox)
    /\ last' = HandledOutcome("FileOpenedOk")
    /\ snapshot' = ContentText(WithText(Head(inbox).text))
    /\ base' = [since |-> "Sync", edited |-> FALSE]
    /\ UNCHANGED <<theme, error, running, fs>>

\* variant: a failed Open resets the document
FileOpenedErr_ResetsDocument ==
    /\ inbox # <<>>
    /\ Head(inbox).msg = "FileOpened" /\ ~Head(inbox).ok
    /\ error' = Head(inbox).err
    /\ path' = None
    /\ content' = NewContent
    /\ inbox' = Tail(inbox)
    /\ last' = HandledOutcome("FileOpenedErr")
    /\ UNCHANGED <<theme, is_dirty, running, fs, snapshot, base>>

FileOpenedErr ==
    /\ inbox # <<>>
    /\ Head(inbox).msg = "FileOpened" /\ ~Head(inbox).ok
    /\ error' = Head(inbox).err
    /\ inbox' = Tail(inbox)
    /\ last' = HandledOutcome("FileOpenedErr")
    /\ UNCHANGED <<path, content, theme, is_dirty, running, fs, snapshot, base>>

\* variant: a successful Save reloads the document from the text it wrote
FileSavedOk_ReplacesContent ==
    /\ inbox # <<>>
    /\ Head(inbox).msg = "FileSaved" /\ Head(inbox).ok
    /\ path' = Head(inbox).path
    /\ content' = WithText(Head(inbox).text)
    /\ is_dirty' = FALSE
    /\ inbox' = Tail(inbox)
    /\ last' = HandledOutcome("FileSavedOk")
    /\ snapshot' = Head(inbox).text
    /\ base' = [since |-> "Sync", edited |-> FALSE]
    /\ UNCHANGED <<theme, error, running, fs>>

\* variant: a successful Save stores the path and leaves dirty alone
FileSavedOk_KeepsDirty ==
    /\ inbox # <<>>
    /\ Head(inbox).msg = "FileSaved" /\ Head(inbox).ok
    /\ path' = Head(inbox).path
    /\ is_dirty' = is_dirty
    /\ inbox' = Tail(inbox)
    /\ last' = HandledOutcome("FileSavedOk")
    /\ snapshot' = Head(inbox).text
    /\ base' = [since |-> "Sync", edited |-> FALSE]
    /\ UNCHANGED <<content, theme, error, running, fs>>

FileSavedOk ==
    /\ inbox # <<>>
    /\ Head(inbox).msg = "FileSaved" /\ Head(inbox).ok
    /\ path' = Head(inbox).path
    /\ is_dirty' = FALSE
    /\ inbox' = Tail(inbox)
    /\ last' = HandledOutcome("FileSavedOk")
    /\ snapshot' = Head(inbox).text
    /\ base' = [since |-> "Sync", edited |-> FALSE]
    /\ UNCHANGED <<content, theme, error, running, fs>>

\* variant: a failed Save clears dirty as a successful one does
FileSavedErr_ClearsDirty ==
    /\ inbox # <<>>
    /\ Head(inbox).msg = "FileSaved" /\ ~Head(inbox).ok
    /\ error' = Head(inbox).err
    /\ is_dirty' = FALSE
    /\ inbox' = Tail(inbox)
    /\ last' = HandledOutcome("FileSavedErr")
    /\ UNCHANGED <<path, content, theme, running, fs, snapshot, base>>

\* variant: a failed Save is tried again with the current text
FileSavedErr_Retries ==
    /\ inbox # <<>>
    /\ Head(inbox).msg = "FileSaved" /\ ~Head(inbox).ok
    /\ error' = Head(inbox).err
    /\ inbox' = Tail(inbox)
    /\ running' = Spawn(SaveTask(path, ContentText(content)))
    /\ last' = HandledOutcome("FileSavedErr")
    /\ UNCHANGED <<path, content, theme, is_dirty, fs, snapshot, base>>

FileSavedErr ==
    /\ inbox # <<>>
    /\ Head(inbox).msg = "FileSaved" /\ ~Head(inbox).ok
    /\ error' = Head(inbox).err
    /\ inbox' = Tail(inbox)
    /\ last' = HandledOutcome("FileSavedErr")
    /\ UNCHANGED <<path, content, theme, is_dirty, running, fs, snapshot, base>>

ThemeChanged ==
    \E t \in Themes :
        /\ theme' = t
        /\ last' = Handled("ThemeChanged")
        /\ UNCHANGED <<path, content, is_dirty, error, running, inbox, fs, snapshot, base>>

----------------------------------------------------------------------------
(* The asynchronous tasks. A task touches only the filesystem and its own  *)
(* result; finishing it appends the result message to the inbox.           *)

\* tokio::fs::read_to_string: the results load_file(p) can return
LoadResults(p) ==
    IF fs[p] = NoFile
    THEN {OpenedErr(IOFailed("NotFound"))}
    ELSE {OpenedOk(p, fs[p]), OpenedErr(IOFailed("PermissionDenied"))}

Finish(t, m) ==
    /\ running' = running (-) SetToBag({t})
    /\ inbox' = Append(inbox, m)

\* load_file(path), started by Editor::new
LoadFile ==
    \E t \in BagToSet(running) :
        /\ t.op = "LoadFile"
        /\ \E m \in LoadResults(t.path) : Finish(t, m)
        /\ UNCHANGED <<doc, fs, last, snapshot, base>>

\* pick_file(): the open dialog, then load_file of the picked path
PickFile ==
    \E t \in BagToSet(running) :
        /\ t.op = "PickFile"
        /\ \/ Finish(t, OpenedErr(DialogClosed))
           \/ \E p \in Paths : \E m \in LoadResults(p) : Finish(t, m)
        /\ UNCHANGED <<doc, fs, last, snapshot, base>>

\* variant: the save dialog is shown even when the path is known
SaveFile_AlwaysAsks ==
    \E t \in BagToSet(running) :
        /\ t.op = "SaveFile"
        /\ \/ /\ Finish(t, SavedErr(DialogClosed))
              /\ fs' = fs
           \/ \E p \in Paths :
                 \/ /\ fs' = [fs EXCEPT ![p] = t.text]
                    /\ Finish(t, SavedOk(p, t.text))
                 \/ /\ fs' = fs
                    /\ Finish(t, SavedErr(IOFailed("PermissionDenied")))
        /\ UNCHANGED <<doc, last, snapshot, base>>

\* variant: the write appends to an existing file instead of replacing it
SaveFile_Appends ==
    \E t \in BagToSet(running) :
        /\ t.op = "SaveFile"
        /\ \/ /\ t.path = None
              /\ Finish(t, SavedErr(DialogClosed))
              /\ fs' = fs
           \/ \E p \in (IF t.path = None THEN Paths ELSE {t.path}) :
                 \/ /\ fs' = [fs EXCEPT ![p] = IF @ = NoFile THEN t.text ELSE @ \o t.text]
                    /\ Finish(t, SavedOk(p, t.text))
                 \/ /\ fs' = fs
                    /\ Finish(t, SavedErr(IOFailed("PermissionDenied")))
        /\ UNCHANGED <<doc, last, snapshot, base>>

\* save_file(path, text): the save dialog when there is no path, then the write
SaveFile ==
    \E t \in BagToSet(running) :
        /\ t.op = "SaveFile"
        /\ \/ /\ t.path = None
              /\ Finish(t, SavedErr(DialogClosed))
              /\ fs' = fs
           \/ \E p \in (IF t.path = None THEN Paths ELSE {t.path}) :
                 \/ /\ fs' = [fs EXCEPT ![p] = t.text]
                    /\ Finish(t, SavedOk(p, t.text))
                 \/ /\ fs' = fs
                    /\ Finish(t, SavedErr(IOFailed("PermissionDenied")))
        /\ UNCHANGED <<doc, last, snapshot, base>>

----------------------------------------------------------------------------

Next ==
    \/ EditMove \/ EditSelect \/ EditClick \/ EditDrag
    \/ EditInsert \/ EditEnter \/ EditBackspace \/ EditDelete
    \/ UpdateNew \/ UpdateOpen \/ SaveControl \/ SaveKey
    \/ FileOpenedOk \/ FileOpenedErr \/ FileSavedOk \/ FileSavedErr
    \/ ThemeChanged
    \/ LoadFile \/ PickFile \/ SaveFile

Spec == Init /\ [][Next]_vars

\* the runtime: every spawned task is polled until it finishes (the dialog
\* and the filesystem answer), and every queued message is handed to update
TaskStep == LoadFile \/ PickFile \/ SaveFile

OutcomeStep == FileOpenedOk \/ FileOpenedErr \/ FileSavedOk \/ FileSavedErr

FairSpec == Spec /\ WF_running(TaskStep) /\ WF_inbox(OutcomeStep)

----------------------------------------------------------------------------
(* Vocabulary of the properties: steps named by what they do to the queues *)

\* update takes the first outcome message off the inbox
Consumed == inbox # <<>> /\ inbox' = Tail(inbox)

ConsumedMsg(msg, ok) ==
    Consumed /\ Head(inbox).msg = msg /\ Head(inbox).ok = ok

\* a task finishes and its outcome message joins the inbox
Delivered == Len(inbox') = Len(inbox) + 1

DeliveredMsg == inbox'[Len(inbox')]

\* an operation is started
Issued == BagCardinality(running') = BagCardinality(running) + 1

SameDocument == content' = content /\ path' = path /\ is_dirty' = is_dirty

\* update handles an edit message whose action is cursor-only
CursorOnlyStep ==
    last'.msg = "EditCursor" /\ running' = running /\ inbox' = inbox

----------------------------------------------------------------------------
(* Properties *)

\* C1: when an Open is in flight, a content-changing edit is applied and the
\* Open then resolves successfully, the document afterwards holds exactly the
\* text the Open read from the file (the edit is gone), the file's path, and
\* dirty = false.
C1_RaceOpenWins ==
    [][ /\ (ConsumedMsg("FileOpened", TRUE) /\ last.msg = "EditChange")
            => /\ content' = WithText(Head(inbox).text)
               /\ path' = Head(inbox).path
               /\ is_dirty' = FALSE
        /\ (Delivered /\ DeliveredMsg.msg = "FileOpened" /\ DeliveredMsg.ok)
            => /\ DeliveredMsg.path \in Paths
               /\ DeliveredMsg.text = fs[DeliveredMsg.path]
      ]_vars

\* an Open outcome was applied right after an edit and replaced the edited
\* text by the file's
C1_Witness ==
    /\ last = [msg |-> "FileOpenedOk", afterEdit |-> TRUE]
    /\ content = WithText(<<"a">>)
    /\ path = "P1"
    /\ ~is_dirty

\* C2: in every reachable state dirty is true iff the current content differs
\* from the snapshot most recently loaded by a successful Open or written by a
\* successful Save (no snapshot yet counts as differing).
C2_DirtyIffDiffers ==
    is_dirty <=> (snapshot = NoSnapshot \/ ContentText(content) # snapshot)

\* C3 as stated: once an Open or Save has succeeded or New was applied, dirty
\* is true iff a content-changing edit was applied since the most recent of
\* them.
C3_DirtyIffEditedSince ==
    base.since # "Startup" => (is_dirty <=> base.edited)

\* C3 as amended: dirty is true iff a content-changing edit was applied since
\* the most recent successful Open or Save outcome, or no Open or Save outcome
\* has succeeded since startup or the most recent New.
C3_DirtyIffEditedOrFresh ==
    is_dirty <=> (base.edited \/ base.since \in {"Startup", "New"})

\* a loaded or saved document was edited and is dirty
C3_Witness ==
    /\ base = [since |-> "Sync", edited |-> TRUE]
    /\ last.msg = "EditChange"
    /\ is_dirty

\* C4: dirty is true right after any content-changing edit action, and false
\* right after a successful Open or Save outcome, whatever the state before.
C4_DirtyAfter ==
    /\ last.msg = "EditChange" => is_dirty
    /\ last.msg \in {"FileOpenedOk", "FileSavedOk"} => ~is_dirty

\* a Save outcome applied right after an edit left the document clean
C4_Witness ==
    /\ last = [msg |-> "FileSavedOk", afterEdit |-> TRUE]
    /\ ~is_dirty

\* C5: a cursor-only action (a move, a selection by motion, a click, a drag)
\* changes neither dirty nor the text nor the path.
C5_CursorOnlyFrame ==
    [][ CursorOnlyStep
            => /\ is_dirty' = is_dirty
               /\ content'.lines = content.lines
               /\ path' = path
      ]_vars

\* a clean document carries a selection made by a cursor-only action
C5_Witness ==
    /\ last.msg = "EditCursor"
    /\ content.anchor # NoSel
    /\ ~is_dirty

\* C6: a Save that ends in failure (DialogClosed, only from the picker of a
\* path-less Save, or IOFailed(kind) from the write) leaves content, path and
\* dirty as they were when it was issued, through issue, failure and delivery,
\* and sets the error to that failure.
C6_SaveFailureFrame ==
    [][ /\ ConsumedMsg("FileSaved", FALSE)
            => SameDocument /\ error' = Head(inbox).err /\ error' # NoError
        /\ (Issued \/ Delivered) => SameDocument /\ error' = error
        /\ (Delivered /\ DeliveredMsg.msg = "FileSaved" /\ ~DeliveredMsg.ok)
            => /\ fs' = fs
               /\ \E t \in BagToSet(running) :
                     /\ t.op = "SaveFile"
                     /\ running' = running (-) SetToBag({t})
                     /\ DeliveredMsg.err = DialogClosed => t.path = None
                     /\ DeliveredMsg.err # DialogClosed
                            => DeliveredMsg.err = IOFailed("PermissionDenied")
      ]_vars

\* the save picker of a path-less document was cancelled
C6_Witness ==
    /\ last.msg = "FileSavedErr"
    /\ error = DialogClosed
    /\ path = None
    /\ content.lines # << <<>> >>
    /\ is_dirty

\* C7: an Open that ends in failure (DialogClosed from the picker, IOFailed
\* from the read) leaves content, path and dirty untouched and records the
\* error.
C7_OpenFailureFrame ==
    [][ /\ ConsumedMsg("FileOpened", FALSE)
            => SameDocument /\ error' = Head(inbox).err /\ error' # NoError
        /\ (Delivered /\ DeliveredMsg.msg = "FileOpened" /\ ~DeliveredMsg.ok)
            => /\ SameDocument /\ error' = error /\ fs' = fs
               /\ DeliveredMsg.err \in
                     {DialogClosed, IOFailed("NotFound"), IOFailed("PermissionDenied")}
      ]_vars

\* a failed read was recorded and the edited document is still there
C7_Witness ==
    /\ last.msg = "FileOpenedErr"
    /\ error = IOFailed("NotFound")
    /\ content.lines = << <<"a">> >>
    /\ is_dirty

\* C8: New, from any state, yields one empty line, no path and dirty = true,
\* starts no operation, and neither completes nor cancels one in flight.
C8_NewIsSynchronous ==
    [][ UpdateNew
            => /\ content'.lines = << <<>> >>
               /\ path' = None
               /\ is_dirty' = TRUE
               /\ running' = running /\ inbox' = inbox /\ fs' = fs
      ]_vars

\* New was applied to a loaded document while an operation was in flight
C8_Witness ==
    /\ last.msg = "New"
    /\ snapshot # NoSnapshot
    /\ InFlight > 0
    /\ is_dirty /\ path = None

C10_AtMostOneInFlight == InFlight <= 1

\* C10 as amended: nothing limits the operations in flight. Every Open or
\* Save request starts one more operation whatever is already in flight, the
\* startup load included, and only applying an outcome ends one.
C10_RequestsAlwaysStart ==
    [][ /\ (UpdateOpen \/ SaveControl \/ SaveKey) => InFlight' = InFlight + 1
        /\ Consumed => InFlight' = InFlight - 1
        /\ InFlight' # InFlight
            => (UpdateOpen \/ SaveControl \/ SaveKey \/ Consumed)
      ]_vars

\* an Open and a Save are in flight together
C10_Witness ==
    /\ InFlight = 2
    /\ \E t \in BagToSet(running) : t.op = "PickFile"
    /\ \E t \in BagToSet(running) : t.op = "SaveFile"

\* C11 (as stated): whenever an Open or a Save resolves successfully, applying
\* its outcome overwrites content, path and dirty with the operation's result:
\* right after it the document's text is the text the operation read or wrote,
\* the path is set and dirty is false, so no edit made in between survives.
C11_SuccessOverwritesContent ==
    last.msg \in {"FileOpenedOk", "FileSavedOk"}
        => /\ ContentText(content) = snapshot
           /\ path # None
           /\ ~is_dirty

\* C11 (amended): applying a successful Open outcome overwrites content, path
\* and dirty with the file's text, the file's path and false; applying a
\* successful Save outcome overwrites only path and dirty (with the written
\* path and false) and leaves content as it is, so an edit made while the Save
\* was in flight survives in the content.
C11_SuccessOverwrites ==
    [][ /\ ConsumedMsg("FileOpened", TRUE)
            => /\ content' = WithText(Head(inbox).text)
               /\ path' = Head(inbox).path
               /\ is_dirty' = FALSE
        /\ ConsumedMsg("FileSaved", TRUE)
            => /\ content' = content
               /\ path' = Head(inbox).path
               /\ is_dirty' = FALSE
      ]_vars

\* a Save outcome was applied right after an edit: the document is clean and
\* has the path, and its text is not the text that was written
C11_Witness ==
    /\ last = [msg |-> "FileSavedOk", afterEdit |-> TRUE]
    /\ ContentText(content) # snapshot
    /\ path = "P1"
    /\ ~is_dirty

\* the successful outcome of an Open and of a Save are applied one right after
\* the other, so that both operations were in flight together: the later one
\* is the message being consumed
LaterOfTwo(first, later) ==
    last.msg = first /\ ConsumedMsg(later, TRUE)

\* the text of the document a successful outcome stands for
ResultText(m) ==
    IF m.msg = "FileOpened" THEN ContentText(WithText(m.text)) ELSE m.text

C13_ErrorUntilContentEdit ==
    [][ /\ (error # NoError /\ error' = NoError) => last'.msg = "EditChange"
        /\ (last'.msg = "EditChange" /\ content' # content) => error' = NoError
      ]_vars

\* a position (line, column) lies within the lines of content c
ValidPosition(c, p) ==
    /\ 0 <= p[1] /\ p[1] < Len(c.lines)
    /\ 0 <= p[2] /\ p[2] <= Len(Line(c, p[1]))

InitialDocument ==
    /\ content = NewContent
    /\ path = None
    /\ is_dirty
    /\ error = NoError

\* the one operation of startup: the load of the default file, either still
\* running or finished with its outcome waiting, which is a read result
StartupLoadInFlight ==
    \/ /\ running = SetToBag({LoadTask(DefaultFile)})
       /\ inbox = <<>>
    \/ /\ running = EmptyBag
       /\ Len(inbox) = 1
       /\ inbox[1].msg = "FileOpened"
       /\ IF inbox[1].ok
          THEN inbox[1].path = DefaultFile /\ inbox[1].text = fs[DefaultFile]
          ELSE inbox[1].err.tag = "IOFailed"

\* C15: at startup, and until the first message is handled, the document is
\* empty, path-less, dirty and without error, and exactly one load of the
\* default file is in flight, which involves no dialog and so never yields
\* DialogClosed; when that load's outcome is applied first, success gives the
\* document the file's content and path with dirty = false, and failure leaves
\* it empty, path-less and dirty with error = IOFailed(kind).
C15_Startup ==
    /\ [](last.msg = "Startup" => InitialDocument /\ StartupLoadInFlight)
    /\ [][ /\ (last.msg = "Startup" /\ ConsumedMsg("FileOpened", TRUE))
               => /\ content' = WithText(Head(inbox).text)
                  /\ path' = DefaultFile
                  /\ is_dirty' = FALSE
                  /\ error' = NoError
           /\ (last.msg = "Startup" /\ ConsumedMsg("FileOpened", FALSE))
               => /\ content' = NewContent
                  /\ path' = None
                  /\ is_dirty' = TRUE
                  /\ error' = Head(inbox).err
                  /\ error'.tag = "IOFailed"
         ]_vars

\* the startup load failed because the default file does not exist, and its
\* outcome was the first message applied
C15_Witness ==
    /\ last = [msg |-> "FileOpenedErr", afterEdit |-> FALSE]
    /\ base = [since |-> "Startup", edited |-> FALSE]
    /\ InFlight = 0
    /\ fs[DefaultFile] = NoFile
    /\ content = NewContent /\ path = None /\ is_dirty
    /\ error = IOFailed("NotFound")

\* task t finishes in this step
Finished(t) ==
    t \in BagToSet(running) /\ running' = running (-) SetToBag({t})

C17_SaveCapturesAtIssue ==
    [][ /\ (Issued /\ last'.msg \in {"SaveControl", "SaveKey"})
            => running' = running (+) SetToBag({SaveTask(path, ContentText(content))})
        /\ (~Issued /\ ~Delivered) => running' = running
        /\ \A t \in BagToSet(running) :
              (Finished(t) /\ t.op = "SaveFile" /\ DeliveredMsg.ok)
                  => /\ fs'[DeliveredMsg.path] = t.text
                     /\ DeliveredMsg.text = t.text
                     /\ t.path # None => DeliveredMsg.path = t.path
      ]_vars

\* a Save issued on the empty document has written the empty text although
\* a character was typed while it was in flight
C17_Witness ==
    /\ \E i \in 1..Len(inbox) : inbox[i] = SavedOk("P1", <<NL>>)
    /\ fs["P1"] = <<NL>>
    /\ content.lines = << <<"a">> >>
    /\ snapshot = NoSnapshot

\* C18: issuing an Open or a Save changes no field of the document (content,
\* path, dirty, error, theme) and nothing on disk; a task that finishes only
\* queues its outcome and changes no field either, so the fields change only
\* when update handles a message; and a theme change alters the theme alone.
C18_IssueAndThemeFrame ==
    [][ /\ (Issued \/ Delivered) => UNCHANGED doc
        /\ Issued => (fs' = fs /\ inbox' = inbox)
        /\ theme' # theme
            => UNCHANGED <<path, content, is_dirty, error, running, inbox, fs>>
      ]_vars

\* the theme was changed while an error was shown and an operation was in
\* flight; the clean document, the error and the operation are still there
C18_Witness ==
    /\ last.msg = "ThemeChanged"
    /\ theme = "InspiredGitHub"
    /\ error # NoError
    /\ ~is_dirty
    /\ InFlight > 0

\* the message a task of the given kind delivers
OutcomeOf(op) == IF op = "SaveFile" THEN "FileSaved" ELSE "FileOpened"

\* C19: an operation runs from its issue to exactly one outcome. A running
\* task leaves only by delivering one outcome message of its kind (nothing
\* cancels it), every message delivered comes from one task, a message leaves
\* the queue only by being applied, applying an outcome (a failed one
\* included) starts no operation, and an operation starts only on a user
\* request. With the runtime running the tasks and delivering the messages,
\* outcomes keep being applied: a full set of operations in flight always
\* shrinks, and once no new operation is requested every operation in flight
\* has its outcome applied.
C19_OperationLifecycle ==
    /\ [][ /\ running' # running
               => \/ Issued /\ inbox' = inbox
                            /\ last'.msg \in {"Open", "SaveControl", "SaveKey"}
                  \/ \E t \in BagToSet(running) :
                        /\ Finished(t)
                        /\ inbox' = Append(inbox, DeliveredMsg)
                        /\ DeliveredMsg.msg = OutcomeOf(t.op)
           /\ inbox' # inbox
               => \/ Delivered /\ \E t \in BagToSet(running) : Finished(t)
                  \/ Consumed /\ running' = running
                              /\ last'.msg \in {"FileOpenedOk", "FileOpenedErr",
                                                "FileSavedOk", "FileSavedErr"}
         ]_vars
    /\ (InFlight = MaxInFlight) ~> (InFlight < MaxInFlight)
    /\ <>[][~Issued]_running => <>(InFlight = 0)

\* a failed Save has been applied and nothing is in flight: the operation
\* ended with its one outcome and was not started again
C19_Witness ==
    /\ last.msg = "FileSavedErr"
    /\ error = IOFailed("PermissionDenied")
    /\ InFlight = 0
    /\ is_dirty

\* C20: a Save is issued only in a state where dirty is true, whether it is
\* requested by the Save control or by the keyboard shortcut: right after a
\* Save request was handled, which changes no field, the document is dirty.
C20_SaveOnlyWhenDirty ==
    last.msg \in {"SaveControl", "SaveKey"} => is_dirty

====
